---- MODULE Spec2Model ----
(***************************************************************************)
(* Model of the marketplace-release action (src/index.ts, current revision *)
(* src/unnamed/part_001) and of its folder parser (src/unnamed/part_003).  *)
(*                                                                         *)
(* Spec     : one execution of the main entry point over a repository with *)
(*            three bundle folders; declarations are drawn at Init and the *)
(*            external collaborators (sf, cp, git, the release host) may   *)
(*            fail, at most MaxFaults times in a run.                      *)
(* XmlSpec  : createUninstallPackageMetadata applied to install manifests  *)
(*            drawn from a bounded set.                                    *)
(* ParserSpec, EntrySpec, PackageSpec : the folder parser, the index       *)
(*            entry and the walk of the packages directory on bounded      *)
(*            sets of inputs.                                              *)
(***************************************************************************)
EXTENDS Integers, Sequences, FiniteSets, TLC

\* ------------------------------------------------------------------ bounds
MaxDeps == 2          \* longest declared dependency list
MaxFaults == 1        \* external failures injected in one run
MaxChildren == 3      \* child elements of an install manifest's root
MaxEntries == 3       \* paths handed to a strategy or grouped for a builder
MaxBuilds == 2        \* calls of build() on one builder
MaxPlacements == 3    \* files placed under the packages root

\* --------------------------------------------------------------- constants
\* fsPromises.readdir(marketplaceConfig.paths.bundles): directory-listing order
features == <<"alpha", "beta", "gamma">>

BundleSet == {features[k] : k \in DOMAIN features}

\* names a declaration may list under "dependencies"; "ghost" has no folder
DepNames == BundleSet \cup {"ghost"}

IGNORED_DIRECTORY_CONTENT ==
    {"dist", ".DS_Store", "package.xml", "destructiveChanges.xml", "bundle.json"}

\* readdir returns entries in name order
DirOrder == <<"classes", "dist", "objects", "pages">>
FileOrder == <<"A.cls", "Account/Account.object", "B.cls", "G.page", "Shared.cls",
               "Util.cls", "old.zip">>

NoDecl == [present |-> FALSE, deps |-> <<>>]

\* ----------------------------------------------------------------- helpers
Range(s) == {s[k] : k \in DOMAIN s}

RECURSIVE SeqsUpTo(_, _)
SeqsUpTo(S, n) ==
    IF n = 0 THEN {<<>>}
    ELSE LET shorter == SeqsUpTo(S, n - 1)
         IN  shorter \cup {Append(s, x) : s \in {t \in shorter : Len(t) = n - 1}, x \in S}

NoRepeat(s) == \A p, q \in DOMAIN s : p # q => s[p] # s[q]

File(d, n, nested, o, t) ==
    [dir |-> d, name |-> n, nested |-> nested, origin |-> o, tracked |-> t]

\* the committed content of each bundle folder (what HEAD holds)
HeadFiles(b) ==
    CASE b = "alpha" -> {File("classes", "A.cls", FALSE, "alpha", TRUE),
                         File("classes", "Shared.cls", FALSE, "alpha", TRUE),
                         File("objects", "Account/Account.object", TRUE, "alpha", TRUE),
                         File("dist", "old.zip", FALSE, "alpha", TRUE)}
      [] b = "beta"  -> {File("classes", "B.cls", FALSE, "beta", TRUE),
                         File("classes", "Shared.cls", FALSE, "beta", TRUE),
                         File("classes", "Util.cls", FALSE, "beta", TRUE)}
      [] OTHER       -> {File("pages", "G.page", FALSE, "gamma", TRUE)}

HeadDirs(b) == {f.dir : f \in HeadFiles(b)}

\* --------------------------------------------------------------- variables
VARIABLES
    pc,          \* position of the main entry point
    idx,         \* index into features of the folder being processed
    depIdx,      \* index into the current declaration's dependencies
    decl,        \* bundle.json of every folder, as on disk
    tree,        \* files of every bundle folder in the working tree
    dirs,        \* top-level subdirectories of every bundle folder
    preMerge,    \* files of the current folder when prepDependencies started
    errors,      \* the module-level errors array
    exitCode,    \* process.exitCode as set by core.setFailed
    failures,    \* messages passed to core.setFailed, in call order
    conflicts,   \* target paths found existing by prepDependencies
    thrown,      \* the rejection that ended run(), "" while none
    invocations, \* packaging tool invocations, in call order
    sfdxProject, \* the content of sfdx-project.json in the workspace root
    dist,        \* documents written under DIST_FOLDER
    zipPaths,    \* archive paths recorded by run()
    info,        \* index data: the bundles list
    releaseId,   \* 0 until createRelease returned
    uploads,     \* assets uploaded, in call order
    faults,      \* external failures injected so far
    packages,    \* the package entries returned by getPackageData
    running,     \* packaging tool invocations started and not yet ended
    scan,        \* the grouped directory scan of the folder being processed
    manifest,    \* XmlSpec: install manifest under test
    written,     \* XmlSpec: documents written for it
    packagesDir, \* the directory tree under marketplaceConfig.paths.packages
    filePaths,              \* ParserSpec: argument of the strategies' parseFiles
    filePathsByObjectType,  \* ParserSpec: the builder's grouped mapping
    ignoredFolderContent,   \* ParserSpec: the ignored markers, when given
    parsed,                 \* ParserSpec: results of the strategies called directly
    builds,                 \* ParserSpec: outcomes of build(), in call order
    featureFolder, \* EntrySpec: folder name of the declaration under test
    featureInfo,   \* EntrySpec: the parsed declaration under test
    entry          \* EntrySpec: index entries pushed for it

vars == <<pc, idx, depIdx, decl, tree, dirs, preMerge, errors, exitCode, failures,
          conflicts, thrown, invocations, sfdxProject, dist, zipPaths, info,
          releaseId, uploads, faults, packages, running, scan, manifest, written,
          packagesDir, filePaths, filePathsByObjectType, ignoredFolderContent, parsed, builds,
          featureFolder, featureInfo, entry>>

parserVars == <<filePaths, filePathsByObjectType, ignoredFolderContent, parsed, builds>>

entryVars == <<featureFolder, featureInfo, entry>>

\* what an execution of the main entry point never writes
unitVars == <<packagesDir, parserVars, entryVars>>


\* ------------------------------------------------------- error collection
\* captureError(ex, detailedPrefix): every call site passes a prefix
captureError(errs, detailedPrefix, errMsg) ==
    Append(errs, detailedPrefix \o ": " \o errMsg)

\* errors.join('\n')
RECURSIVE JoinLines(_)
JoinLines(msgs) ==
    IF msgs = <<>> THEN ""
    ELSE IF Len(msgs) = 1 THEN msgs[1]
    ELSE msgs[1] \o "\n" \o JoinLines(Tail(msgs))

\* ------------------------------------------------------------ XML documents
\* An XML file is its declaration header, its root's namespace attribute and
\* the root's child elements in document order; a child element is a text
\* leaf (version) or holds text leaves (types: members and name).
Leaf(t, x) == [tag |-> t, text |-> x]
Elem(t, x, k) == [tag |-> t, text |-> x, kids |-> k]
Doc(sa, ns, ch) == [standalone |-> sa, xmlns |-> ns, children |-> ch]

METADATA_NS == "http://soap.sforce.com/2006/04/metadata"

\* keys of an xml2js object: tag names in order of first appearance
RECURSIVE FirstTags(_)
FirstTags(elems) ==
    IF elems = <<>> THEN <<>>
    ELSE LET rest == FirstTags(SelectSeq(Tail(elems), LAMBDA e : e.tag # elems[1].tag))
         IN  <<elems[1].tag>> \o rest

TextsOf(leaves, t) ==
    LET sel == SelectSeq(leaves, LAMBDA l : l.tag = t)
    IN  [k \in DOMAIN sel |-> sel[k].text]

\* xml2js parse of one child element: same-named children grouped into arrays
ParseElem(e) ==
    [text |-> e.text,
     keys |-> FirstTags(e.kids),
     vals |-> [t \in {l.tag : l \in Range(e.kids)} |-> TextsOf(e.kids, t)]]

NodesOf(elems, t) ==
    LET sel == SelectSeq(elems, LAMBDA e : e.tag = t)
    IN  [k \in DOMAIN sel |-> ParseElem(sel[k])]

\* parseStringPromise(packageXmlContent).Package
parseStringPromise(doc) ==
    [attrs |-> doc.xmlns,
     keys  |-> FirstTags(doc.children),
     vals  |-> [t \in {e.tag : e \in Range(doc.children)} |-> NodesOf(doc.children, t)]]

EmptyNode == [text |-> "", keys |-> <<>>, vals |-> <<>>]

\* Builder: an array renders one element per entry, keys in insertion order
RECURSIVE RenderLeaves(_, _)
RenderLeaves(keys, vals) ==
    IF keys = <<>> THEN <<>>
    ELSE [k \in DOMAIN vals[keys[1]] |-> Leaf(keys[1], vals[keys[1]][k])]
         \o RenderLeaves(Tail(keys), vals)

\* faulty variant: the text of an element is not written
RenderElem_NoText(t, node) == Elem(t, "", RenderLeaves(node.keys, node.vals))

RenderElem(t, node) == Elem(t, node.text, RenderLeaves(node.keys, node.vals))

RECURSIVE RenderChildren(_, _)
RenderChildren(keys, vals) ==
    IF keys = <<>> THEN <<>>
    ELSE [k \in DOMAIN vals[keys[1]] |-> RenderElem(keys[1], vals[keys[1]][k])]
         \o RenderChildren(Tail(keys), vals)

\* new Builder().buildObject({ Package: pkg })
buildObject(pkg) ==
    Doc(TRUE, pkg.attrs, RenderChildren(pkg.keys, pkg.vals))

\* faulty variant: the namespace is never put on the root
ReplaceRootTag_Never(doc) == doc

\* .replace('<Package>', '<Package xmlns="...">'): the literal root tag is
\* only printed for a root without attributes that has content
ReplaceRootTag(doc) ==
    IF doc.xmlns = "" /\ doc.children # <<>>
    THEN [doc EXCEPT !.xmlns = METADATA_NS]
    ELSE doc

\* .replace(' standalone="yes"', '')
StripStandalone(doc) == [doc EXCEPT !.standalone = FALSE]

\* parsedPackageXml.Package.types, then delete parsedPackageXml.Package.types
TypesNodes(pkg) ==
    IF "types" \in Range(pkg.keys) THEN pkg.vals["types"] ELSE <<EmptyNode>>

\* faulty variant: the types nodes stay in the parsed manifest
DeleteTypes_Keep(pkg) == pkg

DeleteTypes(pkg) ==
    [attrs |-> pkg.attrs,
     keys  |-> SelectSeq(pkg.keys, LAMBDA t : t # "types"),
     vals  |-> [t \in Range(pkg.keys) \ {"types"} |-> pkg.vals[t]]]

\* createUninstallPackageMetadata: the two documents written from the
\* install manifest
DestructiveChangesXml(doc) ==
    LET pkg == parseStringPromise(doc)
        obj == [attrs |-> "", keys |-> <<"types">>,
                vals |-> [t \in {"types"} |-> TypesNodes(pkg)]]
    IN  StripStandalone(ReplaceRootTag(buildObject(obj)))

\* faulty variant: the types document is written to package.xml as well
UpdatedPackageXml_FromTypes(doc) == DestructiveChangesXml(doc)

UpdatedPackageXml(doc) ==
    StripStandalone(ReplaceRootTag(buildObject(DeleteTypes(parseStringPromise(doc)))))

createUninstallPackageMetadata(doc) ==
    [package |-> UpdatedPackageXml(doc), destructive |-> DestructiveChangesXml(doc)]

\* ------------------------------------------------------------ file system
Folders == {"install", "uninstall", "install-with-deps", "uninstall-with-deps"}

NoDir == [exists |-> FALSE, package |-> <<>>, destructive |-> <<>>]

\* getSubdirectories(directory): its directories, minus the ignored names
getSubdirectories(ds) ==
    SelectSeq(DirOrder, LAMBDA d : d \in ds /\ d \notin IGNORED_DIRECTORY_CONTENT)

\* getFilesInDirectory(directory): the entries that are files (not the
\* content of directories below it)
getFilesInDirectory(fs, d) ==
    LET here  == {f \in fs : f.dir = d /\ ~f.nested}
        names == SelectSeq(FileOrder, LAMBDA n : \E f \in here : f.name = n)
    IN  [k \in DOMAIN names |-> CHOOSE f \in here : f.name = names[k]]

fileExists(fs, d, n) == \E f \in fs : f.dir = d /\ f.name = n

PathOf(b, d, n) == b \o "/" \o d \o "/" \o n

\* faulty variant: the copy loop leaves the target as it is
CopyFiles_NoCopy(files, dep, b, d, st, failing) == st

\* faulty variant: cp overwrites an existing target file
RECURSIVE CopyFiles_Overwrite(_, _, _, _, _, _)
CopyFiles_Overwrite(files, dep, b, d, st, failing) ==
    IF files = <<>> THEN st
    ELSE LET f      == Head(files)
             kept   == {g \in st.files : ~(g.dir = d /\ g.name = f.name)}
             next   ==
                 IF f \in failing
                 THEN [st EXCEPT !.errs = captureError(@,
                          "Error copying " \o PathOf(dep, d, f.name) \o " to "
                              \o PathOf(b, d, f.name), "cp failed")]
                 ELSE [st EXCEPT !.files = kept \cup {File(d, f.name, FALSE, f.origin, FALSE)}]
         IN  CopyFiles_Overwrite(Tail(files), dep, b, d, next, failing)

\* the inner for loop of prepDependencies (lines 201-216) over one
\* subdirectory of a dependency; failing holds the files whose cp fails
RECURSIVE CopyFiles(_, _, _, _, _, _)
CopyFiles(files, dep, b, d, st, failing) ==
    IF files = <<>> THEN st
    ELSE LET f      == Head(files)
             target == PathOf(b, d, f.name)
             next   ==
                 IF fileExists(st.files, d, f.name)
                 THEN [st EXCEPT !.fails = Append(@, "File already exists: " \o target),
                                 !.confl = Append(@, target)]
                 ELSE IF f \in failing
                 THEN [st EXCEPT !.errs = captureError(@,
                          "Error copying " \o PathOf(dep, d, f.name) \o " to " \o target,
                          "cp failed")]
                 ELSE [st EXCEPT !.files = @ \cup {File(d, f.name, FALSE, f.origin, FALSE)}]
         IN  CopyFiles(Tail(files), dep, b, d, next, failing)

\* faulty variant: only the first subdirectory of the dependency is merged
CopySubdirectories_FirstOnly(subdirs, depFiles, dep, b, st, failing) ==
    IF subdirs = <<>> THEN st
    ELSE CopyFiles(getFilesInDirectory(depFiles, Head(subdirs)), dep, b, Head(subdirs),
                   [st EXCEPT !.dirs = @ \cup {Head(subdirs)}], failing)

\* the loop over the subdirectories of one dependency (lines 192-217)
RECURSIVE CopySubdirectories(_, _, _, _, _, _)
CopySubdirectories(subdirs, depFiles, dep, b, st, failing) ==
    IF subdirs = <<>> THEN st
    ELSE LET d     == Head(subdirs)
             made  == [st EXCEPT !.dirs = @ \cup {d}]
             files == getFilesInDirectory(depFiles, d)
         IN  CopySubdirectories(Tail(subdirs), depFiles, dep, b,
                                CopyFiles(files, dep, b, d, made, failing), failing)

\* git restore --staged --worktree <folder>: tracked paths go back to their
\* committed content; paths git does not track are left alone
discardLocalChanges(fs, b) == {f \in fs : ~f.tracked} \cup HeadFiles(b)

\* sf project convert source: the manifest lists the members of every
\* metadata folder of the package directory
MembersOf(fs, d) ==
    LET names == SelectSeq(FileOrder, LAMBDA n : \E f \in fs : f.dir = d /\ f.name = n)
    IN  [k \in DOMAIN names |-> Leaf("members", names[k])]

RECURSIVE TypesOfTree(_, _)
TypesOfTree(ds, fs) ==
    IF ds = <<>> THEN <<>>
    ELSE IF MembersOf(fs, Head(ds)) = <<>> THEN TypesOfTree(Tail(ds), fs)
    ELSE <<Elem("types", "", Append(MembersOf(fs, Head(ds)), Leaf("name", Head(ds))))>>
         \o TypesOfTree(Tail(ds), fs)

API_VERSION == "58.0"

SfManifest(fs) ==
    Doc(FALSE, METADATA_NS,
        Append(TypesOfTree(getSubdirectories({f.dir : f \in fs}), fs),
               Elem("version", API_VERSION, <<>>)))

\* ------------------------------------------------------------ folder parser
\* JavaScript string operations, on strings
CharAt(s, i) == SubSeq(s, i, i)

\* String.prototype.includes
includes(s, t) ==
    \E i \in 1..(Len(s) - Len(t) + 1) : SubSeq(s, i, i + Len(t) - 1) = t

\* String.prototype.endsWith
endsWith(s, t) ==
    Len(t) <= Len(s) /\ SubSeq(s, Len(s) - Len(t) + 1, Len(s)) = t

Largest(S) == CHOOSE m \in S : \A n \in S : n <= m

\* path.basename: trailing separators are dropped, then the part after the
\* last separator is taken
basename(p) ==
    LET ends  == {i \in 1..Len(p) : CharAt(p, i) # "/"}
        last  == IF ends = {} THEN 0 ELSE Largest(ends)
        seps  == {i \in 1..last : CharAt(p, i) = "/"}
        first == IF seps = {} THEN 1 ELSE Largest(seps) + 1
    IN  SubSeq(p, first, last)

\* /\.[^\/]+$/.test(fileName)
filenameWithExtensionRegex(fileName) ==
    \E i \in 1..(Len(fileName) - 1) :
        /\ CharAt(fileName, i) = "."
        /\ \A j \in (i + 1)..Len(fileName) : CharAt(fileName, j) # "/"

\* an optional array argument: given is FALSE when the caller passes undefined
NotGiven == [given |-> FALSE, list |-> <<>>]
Given(list) == [given |-> TRUE, list |-> list]

\* faulty variant: the markers are looked for in the file name only
DefaultFolderParserStrategy_NameOnly(paths, ignored) ==
    SelectSeq(paths, LAMBDA filePath :
        /\ filenameWithExtensionRegex(basename(filePath))
        /\ ~\E k \in DOMAIN ignored.list :
               includes(basename(filePath), ignored.list[k])
        /\ ~endsWith(basename(filePath), "-meta.xml"))

\* DefaultFolderParserStrategy.parseFiles(filePaths, ignoredFolderContent = [])
DefaultFolderParserStrategy(paths, ignored) ==
    LET ignoredList == IF ignored.given
                       THEN ignored.list ELSE <<>>
    IN  SelectSeq(paths, LAMBDA filePath :
            LET fileName == basename(filePath)
            IN  /\ filenameWithExtensionRegex(fileName)
                /\ ~\E k \in DOMAIN ignoredList : includes(filePath, ignoredList[k])
                /\ ~endsWith(fileName, "-meta.xml"))

\* filePath.match(/\/objects\/([^\/]+)/): positions where the pattern can
\* start; the match is the leftmost one and the group runs to the next
\* separator
ObjectsMatchStarts(filePath) ==
    {i \in 1..(Len(filePath) - 9) :
        /\ SubSeq(filePath, i, i + 8) = "/objects/"
        /\ CharAt(filePath, i + 9) # "/"}

Smallest(S) == CHOOSE m \in S : \A n \in S : m <= n

ObjectsMatchGroup(filePath) ==
    LET from == Smallest(ObjectsMatchStarts(filePath)) + 9
        seps == {j \in from..Len(filePath) : CharAt(filePath, j) = "/"}
        to   == IF seps = {} THEN Len(filePath) ELSE Smallest(seps) - 1
    IN  SubSeq(filePath, from, to)

\* the Set filled by the forEach of _getUniqueObjectPaths (lines 38-45)
featureNames(paths) ==
    {ObjectsMatchGroup(paths[k]) :
        k \in {j \in DOMAIN paths : ObjectsMatchStarts(paths[j]) # {}}}

\* faulty variant: every path below an objects folder is kept
getUniqueObjectPaths_All(paths) ==
    SelectSeq(paths, LAMBDA filePath : ObjectsMatchStarts(filePath) # {})

\* ObjectsFolderParserStrategy._getUniqueObjectPaths (lines 37-52)
getUniqueObjectPaths(paths) ==
    SelectSeq(paths, LAMBDA filePath :
        \E featureName \in featureNames(paths) :
            endsWith(filePath, "/objects/" \o featureName))

\* ObjectsFolderParserStrategy.parseFiles(filePaths)
ObjectsFolderParserStrategy(paths) == getUniqueObjectPaths(paths)

\* a plain JavaScript object with array values: its own keys in insertion
\* order and the value of every key
EmptyObject == [own |-> <<>>, val |-> <<>>]

\* obj[key] = obj[key] || []; obj[key].push(path)
Insert(obj, key, path) ==
    IF key \in Range(obj.own)
    THEN [obj EXCEPT !.val[key] = Append(@, path)]
    ELSE [own |-> Append(obj.own, key),
          val |-> [k \in Range(obj.own) \cup {key} |->
                      IF k = key THEN <<path>> ELSE obj.val[k]]]

RECURSIVE InsertAll(_, _)
InsertAll(obj, entries) ==
    IF entries = <<>> THEN obj
    ELSE InsertAll(Insert(obj, Head(entries).key, Head(entries).path), Tail(entries))

Digit(c) == CHOOSE d \in 0..9 : CharAt("0123456789", d + 1) = c

IsDigit(c) == \E d \in 0..9 : CharAt("0123456789", d + 1) = c

\* a canonical array index: decimal digits without a leading zero
IsArrayIndex(key) ==
    /\ Len(key) >= 1
    /\ \A i \in 1..Len(key) : IsDigit(CharAt(key, i))
    /\ Len(key) > 1 => CharAt(key, 1) # "0"

RECURSIVE IndexValue(_)
IndexValue(key) ==
    IF Len(key) = 0 THEN 0
    ELSE 10 * IndexValue(SubSeq(key, 1, Len(key) - 1)) + Digit(CharAt(key, Len(key)))

RECURSIVE Ascending(_)
Ascending(keys) ==
    IF keys = {} THEN <<>>
    ELSE LET least == CHOOSE k \in keys : \A j \in keys : IndexValue(k) <= IndexValue(j)
         IN  <<least>> \o Ascending(keys \ {least})

\* Object.keys(obj): array-index keys in ascending numeric order, then the
\* other keys in insertion order
ObjectKeys(obj) ==
    Ascending({k \in Range(obj.own) : IsArrayIndex(k)})
        \o SelectSeq(obj.own, LAMBDA k : ~IsArrayIndex(k))

\* property names every object literal inherits from Object.prototype
ObjectPrototypeNames ==
    {"constructor", "hasOwnProperty", "isPrototypeOf", "propertyIsEnumerable",
     "toLocaleString", "toString", "valueOf", "__proto__"}

\* CustomFolderParserStrategies[key]: the registered strategy, a member
\* inherited from Object.prototype, or undefined
CustomFolderParserStrategies(key) ==
    IF key = "objects" THEN "objects"
    ELSE IF key \in ObjectPrototypeNames THEN "inherited"
    ELSE "undefined"

\* folderParser.parseFiles(filePaths, ignoredFolderContent) for
\* folderParser = CustomFolderParserStrategies[key] || new Default...()
parseFiles(key, paths, ignored) ==
    IF CustomFolderParserStrategies(key) = "objects"
    THEN ObjectsFolderParserStrategy(paths)
    ELSE DefaultFolderParserStrategy(paths, ignored)

RECURSIVE Flat(_)
Flat(lists) == IF lists = <<>> THEN <<>> ELSE Head(lists) \o Flat(Tail(lists))

\* FolderStructureBuilder.build (lines 81-93): an inherited member is truthy
\* and has no parseFiles, so calling it throws a TypeError
build(grouped, ignored) ==
    LET keys == ObjectKeys(grouped)
    IN  IF \E k \in DOMAIN keys : CustomFolderParserStrategies(keys[k]) = "inherited"
        THEN [threw |-> TRUE, paths |-> <<>>]
        ELSE [threw |-> FALSE,
              paths |-> Flat([k \in DOMAIN keys |->
                                 parseFiles(keys[k], grouped.val[keys[k]],
                                            ignored)])]

\* --------------------------------------------------------- package registry
\* an optional JSON property: <<>> when the document omits it
Absent == <<>>
Some(v) == <<v>>

PACKAGE_FILE_NAME == "sfpackage.json"
README_FILE_NAME == "README.md"

\* String.prototype.toLowerCase
UPPER == "ABCDEFGHIJKLMNOPQRSTUVWXYZ"
LOWER == "abcdefghijklmnopqrstuvwxyz"

LowerChar(c) ==
    IF \E i \in 1..Len(UPPER) : SubSeq(UPPER, i, i) = c
    THEN LET i == CHOOSE j \in 1..Len(UPPER) : SubSeq(UPPER, j, j) = c
         IN  SubSeq(LOWER, i, i)
    ELSE c

RECURSIVE toLowerCase(_)
toLowerCase(str) ==
    IF Len(str) = 0 THEN ""
    ELSE LowerChar(SubSeq(str, 1, 1)) \o toLowerCase(SubSeq(str, 2, Len(str)))

\* a directory entry: a directory, or a file with what reading it gives
\* (readable is FALSE when readFile rejects); json is the parsed content of
\* a descriptor file
NoJson == [array |-> FALSE, value |-> <<>>]
DirEntry(n) == [name |-> n, kind |-> "dir", readable |-> FALSE, text |-> "", json |-> NoJson]
FileEntry(n, r, t, j) == [name |-> n, kind |-> "file", readable |-> r, text |-> t, json |-> j]

\* path.join(directory, name); the packages root is ""
JoinPath(dir, n) == IF dir = "" THEN n ELSE dir \o "/" \o n

\* fsPromises.readdir(directory): the listing of a directory of the tree
Listing(dirTree, dir) == IF dir \in DOMAIN dirTree THEN dirTree[dir] ELSE <<>>

\* faulty variant: the name must match exactly
findFileCaseInsensitive_Exact(entries, fileName) ==
    LET found == SelectSeq(entries, LAMBDA e : e.name = fileName)
    IN  IF found = <<>> THEN <<>> ELSE <<found[1]>>

\* findFileCaseInsensitive (lines 570-580): the first entry whose lower-cased
\* name is the lower-cased file name, if any
findFileCaseInsensitive(entries, fileName) ==
    LET found == SelectSeq(entries,
                           LAMBDA e : toLowerCase(e.name) = toLowerCase(fileName))
    IN  IF found = <<>> THEN <<>> ELSE <<found[1]>>

\* readPackageJson (lines 509-518): the elements of an array, or the one object
readPackageJson(json) == IF json.array THEN json.value ELSE <<json.value>>

\* getPackageData, lines 602-619: one descriptor file of directory dir
ReadDescriptor(entries, dir, e, acc) ==
    LET pkgs   == readPackageJson(e.json)
        readme == findFileCaseInsensitive(entries, README_FILE_NAME)
    IN  IF readme = <<>>
        THEN [acc EXCEPT !.results = @ \o pkgs]
        ELSE IF readme[1].kind = "file" /\ readme[1].readable
        THEN [acc EXCEPT !.results = @ \o
                 [k \in DOMAIN pkgs |->
                     [pkgs[k] EXCEPT !.documentation = Some(readme[1].text)]]]
        ELSE [results |-> acc.results \o pkgs,
              errs    |-> captureError(acc.errs,
                              "Error reading README.md file "
                                  \o JoinPath(dir, readme[1].name),
                              IF readme[1].kind = "dir" THEN "EISDIR" ELSE "EACCES")]

\* getPackageData (lines 590-624) from entry k of directory dir on; acc holds
\* the results and the captured errors so far
RECURSIVE getPackageData(_, _, _, _)
getPackageData(dirTree, dir, k, acc) ==
    IF k > Len(Listing(dirTree, dir)) THEN acc
    ELSE LET e == Listing(dirTree, dir)[k]
         IN  getPackageData(dirTree, dir, k + 1,
                 IF e.kind = "dir"
                 THEN getPackageData(dirTree, JoinPath(dir, e.name), 1, acc)
                 ELSE IF e.name = PACKAGE_FILE_NAME
                 THEN ReadDescriptor(Listing(dirTree, dir), dir, e, acc)
                 ELSE acc)

\* ------------------------------------------------------------- index entries
\* the release-version input of the action
RELEASE_VERSION == "v2.0.0"

\* x || fallback for an optional JSON property
OrElse(opt, fallback) == IF opt = Absent THEN fallback ELSE opt[1]

\* faulty variant: the entry takes the version the declaration states
BundleEntry_DeclaredVersion(folder, featureInfo_) ==
    [id |-> folder,
     name |-> featureInfo_.name,
     description |-> featureInfo_.description,
     version |-> featureInfo_.version,
     documentation |-> OrElse(featureInfo_.documentation, ""),
     iconUrl |-> featureInfo_.iconUrl,
     dependencies |-> OrElse(featureInfo_.dependencies, <<>>),
     packageDependencies |-> OrElse(featureInfo_.packageDependencies, <<>>),
     availability |-> OrElse(featureInfo_.availability, "public"),
     tags |-> OrElse(featureInfo_.tags, <<>>)]

\* the object pushed to info.bundles (run, lines 726-740), but for its files
BundleEntry(folder, featureInfo_) ==
    [id |-> folder,
     name |-> featureInfo_.name,
     description |-> featureInfo_.description,
     version |-> RELEASE_VERSION,
     documentation |-> OrElse(featureInfo_.documentation, ""),
     iconUrl |-> featureInfo_.iconUrl,
     dependencies |-> OrElse(featureInfo_.dependencies, <<>>),
     packageDependencies |-> OrElse(featureInfo_.packageDependencies, <<>>),
     availability |-> OrElse(featureInfo_.availability, "public"),
     tags |-> OrElse(featureInfo_.tags, <<>>)]

\* the entry with its files list (lines 731-733)
IndexEntry(folder, featureInfo_, files) ==
    BundleEntry(folder, featureInfo_) @@ [files |-> files]

\* marketplaceConfig.paths.bundles once loadMarketplaceConfig has joined it to
\* the workspace (line 638), and path.join(paths.bundles, folder) (line 686)
BundlesPath == "/w/bundles"

featurePath(b) == BundlesPath \o "/" \o b

\* IGNORED_DIRECTORY_CONTENT as the array handed to the builder (line 699)
IgnoredContentList ==
    <<"dist", ".DS_Store", "package.xml", "destructiveChanges.xml", "bundle.json">>

\* the part of a name before its first separator (the whole name without one)
FirstSegment(n) ==
    LET seps == {i \in 1..Len(n) : CharAt(n, i) = "/"}
    IN  IF seps = {} THEN n ELSE SubSeq(n, 1, Smallest(seps) - 1)

\* path.relative(from, to) for a path below from
relative(from, to) == SubSeq(to, Len(from) + 2, Len(to))

\* getFolderStructure([featurePath]) (lines 59-79): readdir with the
\* recursive option lists files and directories level by level, bundle.json
\* first among the entries of the bundle root; every entry is resolved
\* against the folder
getFolderStructure(fs, ds, b) ==
    LET root    == featurePath(b)
        top     == SelectSeq(DirOrder, LAMBDA d : d \in ds)
        names(d) == SelectSeq(FileOrder, LAMBDA n : \E f \in fs : f.dir = d /\ f.name = n)
        below(d) == [k \in DOMAIN names(d) |->
                        root \o "/" \o d \o "/" \o FirstSegment(names(d)[k])]
        nested(d) == LET deep == SelectSeq(names(d), LAMBDA n : FirstSegment(n) # n)
                     IN  [k \in DOMAIN deep |-> root \o "/" \o d \o "/" \o deep[k]]
    IN  <<root \o "/bundle.json">>
        \o [k \in DOMAIN top |-> root \o "/" \o top[k]]
        \o Flat([k \in DOMAIN top |-> below(top[k])])
        \o Flat([k \in DOMAIN top |-> nested(top[k])])

\* getFolderStructureGroupedByObjectType([featurePath]) (lines 93-111): no
\* folder of the repository is named like a member of Object.prototype
getFolderStructureGroupedByObjectType(fs, ds, b) ==
    LET allFilePaths == getFolderStructure(fs, ds, b)
    IN  InsertAll(EmptyObject,
                  [k \in DOMAIN allFilePaths |->
                      [key  |-> FirstSegment(relative(featurePath(b), allFilePaths[k])),
                       path |-> allFilePaths[k]]])

\* faulty variant: the scan is taken over the directory as it is when the
\* entry is pushed
ScannedFiles_AtPush(scanned, fs, ds, b) ==
    getFolderStructureGroupedByObjectType(fs, ds, b)

\* the mapping the builder was constructed with (line 697), whatever the
\* directory holds when build() is called (line 731)
ScannedFiles(scanned, fs, ds, b) == scanned

\* folderStructureBuilder.build().map(file => path.relative(featurePath, file))
FilesOf(grouped, b) ==
    LET built == build(grouped, Given(IgnoredContentList)).paths
    IN  [k \in DOMAIN built |-> relative(featurePath(b), built[k])]

\* sfdx-project.json before the first call writes it; its path entry is
\* relative to the workspace
NoProject == [packageDirectories |-> <<>>]

\* faulty variant: the package directory of the first folder is kept
SfdxProjectJson_First(b) ==
    [packageDirectories |-> <<[path |-> "bundles/" \o features[1], default |-> TRUE]>>]

\* the document of lines 245-251
SfdxProjectJson(b) ==
    [packageDirectories |-> <<[path |-> "bundles/" \o b, default |-> TRUE]>>]

\* fileSuffix ? `install${fileSuffix}` : 'install' (line 238); an undefined
\* suffix is the empty string here
InstallFolder(fileSuffix) ==
    IF fileSuffix # "" THEN "install" \o fileSuffix ELSE "install"

\* line 294
UninstallFolder(fileSuffix) ==
    IF fileSuffix # "" THEN "uninstall" \o fileSuffix ELSE "uninstall"

\* faulty variant: the suffix goes into a template string unguarded, as in the
\* revision kept in .github/workflows/release.yml
ManifestFolder_Template(fileSuffix) ==
    IF fileSuffix # "" THEN "install" \o fileSuffix ELSE "installundefined"

\* the folder package.xml is read from (lines 301-305)
ManifestFolder(fileSuffix) ==
    IF fileSuffix # "" THEN "install" \o fileSuffix ELSE "install"

FeatureInfo(n, v, icon, deps, pkgDeps, avail, tags_, doc) ==
    [name |-> n, description |-> n \o " bundle", version |-> v, iconUrl |-> icon,
     dependencies |-> deps, packageDependencies |-> pkgDeps, availability |-> avail,
     tags |-> tags_, documentation |-> doc]

\* the properties of each folder's bundle.json other than a non-empty
\* dependency list: alpha omits every optional property, beta states them
\* all, gamma states empty lists
BundleJson(b) ==
    CASE b = "alpha" -> FeatureInfo("Alpha", "1.0.0", Absent, Absent, Absent, Absent,
                                    Absent, Absent)
      [] b = "beta"  -> FeatureInfo("Beta", "1.2.0", Some("https://x/beta.png"),
                                    Some(<<>>), Some(<<"04t000000000001">>),
                                    Some("dependency"), Some(<<"crm">>), Absent)
      [] OTHER       -> FeatureInfo("Gamma", "0.9.0", Absent, Some(<<>>), Some(<<>>),
                                    Some("public"), Some(<<>>), Absent)

\* the directory tree under the packages root: a descriptor with a README in
\* one folder, a second descriptor two levels down
PackagesFixture ==
    [d \in {"", "core", "extra", "extra/sub"} |->
        CASE d = "" -> <<DirEntry("core"), DirEntry("extra")>>
          [] d = "core" ->
               <<FileEntry("README.md", TRUE, "Core docs", NoJson),
                 FileEntry(PACKAGE_FILE_NAME, TRUE, "",
                           [array |-> TRUE,
                            value |-> <<[name |-> "core", documentation |-> Absent],
                                        [name |-> "core-ui", documentation |-> Absent]>>])>>
          [] d = "extra" -> <<DirEntry("sub")>>
          [] OTHER ->
               <<FileEntry(PACKAGE_FILE_NAME, TRUE, "",
                           [array |-> FALSE,
                            value |-> [name |-> "extra", documentation |-> Absent]])>>]

\* ------------------------------------------------------------------- Init
\* bundle.json of folder b: missing, or a dependency list naming other
\* folders (or a folder that does not exist)
DeclsFor(b) ==
    {NoDecl} \cup
    {[present |-> TRUE, deps |-> s] :
        s \in {t \in SeqsUpTo(DepNames \ {b}, MaxDeps) : NoRepeat(t)}}

AllDecls == UNION {DeclsFor(b) : b \in BundleSet}

NoManifest == Doc(FALSE, "", <<>>)

RunInit ==
    /\ pc = "load"
    /\ idx = 0
    /\ depIdx = 0
    /\ decl \in {d \in [BundleSet -> AllDecls] : \A b \in BundleSet : d[b] \in DeclsFor(b)}
    /\ tree = [b \in BundleSet |-> HeadFiles(b)]
    /\ dirs = [b \in BundleSet |-> HeadDirs(b)]
    /\ preMerge = {}
    /\ errors = <<>>
    /\ exitCode = 0
    /\ failures = <<>>
    /\ conflicts = <<>>
    /\ thrown = ""
    /\ invocations = <<>>
    /\ sfdxProject = NoProject
    /\ dist = [b \in BundleSet |-> [f \in Folders |-> NoDir]]
    /\ zipPaths = <<>>
    /\ info = [bundles |-> <<>>, packages |-> <<>>]
    /\ releaseId = 0
    /\ uploads = <<>>
    /\ faults = 0
    /\ packages = <<>>
    /\ running = <<>>
    /\ scan = EmptyObject

\* no strategy was called and no builder made
ParserIdle ==
    /\ filePaths = <<>>
    /\ filePathsByObjectType = EmptyObject
    /\ ignoredFolderContent = NotGiven
    /\ parsed = [strategy \in {"default", "objects"} |-> <<>>]
    /\ builds = <<>>

EntryIdle ==
    /\ featureFolder = ""
    /\ featureInfo = <<>>
    /\ entry = <<>>

Init ==
    /\ RunInit
    /\ manifest = NoManifest
    /\ written = <<>>
    /\ packagesDir = PackagesFixture
    /\ ParserIdle
    /\ EntryIdle

\* ---------------------------------------------------------------- actions
CanFail == faults < MaxFaults

Current == features[idx]

hasDependencies(b) == decl[b].present /\ Len(decl[b].deps) > 0

\* readBundleInfo(featurePath) (lines 486-504) for a folder that has a
\* bundle.json: its parsed content; the fixture folders hold no README
readBundleInfo(b) ==
    [BundleJson(b) EXCEPT !.dependencies =
        IF decl[b].deps = <<>> THEN @ ELSE Some(decl[b].deps)]

\* faulty variant: the newest entry goes to the front of the list
PushBundle_Front(bundles, e) == <<e>> \o bundles

\* info.bundles.push({...}) (line 726)
PushBundle(bundles, e) == Append(bundles, e)

\* an exception that leaves run(): nothing in run() or the entry point
\* catches it
Reject(msg) ==
    /\ pc' = "aborted"
    /\ thrown' = msg

\* loadMarketplaceConfig (lines 632-651)
LoadMarketplaceConfig ==
    /\ pc = "load"
    /\ \/ /\ pc' = "start"
          /\ UNCHANGED <<exitCode, failures, faults>>
       \/ /\ CanFail
          /\ faults' = faults + 1
          /\ exitCode' = 1
          /\ failures' = Append(failures, "Failed to load marketplace configuration: ENOENT")
          /\ pc' = "start_noconfig"
    /\ UNCHANGED <<idx, depIdx, decl, tree, dirs, preMerge, errors, conflicts, thrown,
                   invocations, sfdxProject, dist, zipPaths, info, releaseId, uploads,
                   packages, manifest, written, running, scan, unitVars>>

\* run, lines 659-683: list the bundles directory, then walk the packages
\* directory
RunStart ==
    /\ pc \in {"start", "start_noconfig"}
    /\ IF pc = "start_noconfig"
       THEN /\ Reject("TypeError: marketplaceConfig.paths")
            /\ UNCHANGED <<idx, packages, errors>>
       ELSE LET walk == getPackageData(packagesDir, "", 1,
                                       [results |-> <<>>, errs |-> errors])
            IN  /\ pc' = "read"
                /\ idx' = 1
                /\ packages' = walk.results
                /\ errors' = walk.errs
                /\ UNCHANGED thrown
    /\ UNCHANGED <<depIdx, decl, tree, dirs, preMerge, exitCode, failures,
                   conflicts, invocations, sfdxProject, dist, zipPaths, info,
                   releaseId, uploads, faults, manifest, written, running, scan, unitVars>>

\* run, lines 686-700: readBundleInfo and the directory scan
ReadBundleInfo ==
    /\ pc = "read"
    /\ IF decl[Current].present
       THEN /\ pc' = "plain"
            /\ scan' = getFolderStructureGroupedByObjectType(tree[Current], dirs[Current],
                                                             Current)
            /\ UNCHANGED thrown
       ELSE /\ Reject("ENOENT: " \o Current \o "/bundle.json")
            /\ UNCHANGED scan
    /\ UNCHANGED <<idx, depIdx, decl, tree, dirs, preMerge, errors, exitCode, failures,
                   conflicts, invocations, sfdxProject, dist, zipPaths, info,
                   releaseId, uploads, faults, packages, manifest, written, running,
                   unitVars>>

\* createSalesforcePackageMetadata, lines 232-263: sfdx-project.json is
\* written to the workspace root and the sf command is started
WriteSfdxProject ==
    /\ pc \in {"plain", "withdeps"}
    /\ LET fileSuffix == IF pc = "plain" THEN "" ELSE "-with-deps"
       IN  /\ sfdxProject' = SfdxProjectJson(Current)
           /\ running' = Append(running, [bundle    |-> Current,
                                          suffix    |-> fileSuffix,
                                          outputDir |-> InstallFolder(fileSuffix),
                                          project   |-> sfdxProject'])
    /\ pc' = pc \o "_sf"
    /\ UNCHANGED <<idx, depIdx, decl, tree, dirs, preMerge, errors, exitCode, failures,
                   conflicts, thrown, invocations, dist, zipPaths, info, releaseId,
                   uploads, faults, packages, manifest, written, scan, unitVars>>

\* faulty variant: the restore is made whatever happened before it
RestoreReached_Always(sfOk, uninstallOk) == TRUE

\* line 273 is reached when neither exec (263) nor
\* createUninstallPackageMetadata (268) threw
RestoreReached(sfOk, uninstallOk) == sfOk /\ uninstallOk

\* how one call of createSalesforcePackageMetadata can go: everything works;
\* the sf command fails and writes nothing; sf works but package.xml cannot
\* be read or parsed (after the uninstall folder was made); git restore fails
SfOutcomes == {"ok"} \cup (IF CanFail THEN {"sfFail", "manifestFail", "restoreFail"} ELSE {})

\* createSalesforcePackageMetadata(featurePath, fileSuffix), lines 261-280,
\* with createUninstallPackageMetadata (lines 289-354): the end of the sf
\* command started by WriteSfdxProject and what follows it
createSalesforcePackageMetadata(b, fileSuffix, outcome) ==
    LET input     == tree[b]
        install   == InstallFolder(fileSuffix)
        uninstall == UninstallFolder(fileSuffix)
        source    == ManifestFolder(fileSuffix)
        sfOk      == outcome # "sfFail"
        \* sf wrote its output directory; mkdir made the uninstall folder
        afterSf   ==
            IF sfOk
            THEN [dist[b] EXCEPT
                    ![install] = [exists |-> TRUE,
                                  package |-> IF outcome = "manifestFail" THEN <<>>
                                              ELSE <<SfManifest(input)>>,
                                  destructive |-> <<>>],
                    ![uninstall].exists = TRUE]
            ELSE dist[b]
        \* readFile and parseStringPromise of the install manifest
        readable  == sfOk /\ source \in Folders /\ afterSf[source].package # <<>>
        docs      == createUninstallPackageMetadata(afterSf[source].package[1])
        afterUninstall ==
            IF readable
            THEN [afterSf EXCEPT ![uninstall] = [exists |-> TRUE,
                                                package |-> <<docs.package>>,
                                                destructive |-> <<docs.destructive>>]]
            ELSE afterSf
        reached   == RestoreReached(sfOk, readable)
        restored  == reached /\ outcome # "restoreFail"
        returned  == sfOk /\ readable /\ outcome # "restoreFail"
        after     == IF restored THEN discardLocalChanges(input, b) ELSE input
        msg       == CASE ~sfOk -> "sf exited with code 1"
                       [] ~readable -> "ENOENT: package.xml"
                       [] OTHER -> "git exited with code 128"
    IN  /\ running' = SubSeq(running, 1, Len(running) - 1)
        /\ invocations' = Append(invocations,
                                 [bundle |-> b, suffix |-> fileSuffix, input |-> input,
                                  project |-> sfdxProject,
                                  outputDir |-> install,
                                  sfSucceeded |-> sfOk,
                                  manifestRead |-> IF sfOk THEN source ELSE "",
                                  uninstallWritten |-> IF readable THEN uninstall ELSE "",
                                  uninstallSucceeded |-> readable,
                                  restoreInvoked |-> reached,
                                  returned |-> returned,
                                  treeAfter |-> after,
                                  errorsBefore |-> errors])
        /\ dist' = [dist EXCEPT ![b] = afterUninstall]
        /\ tree' = [tree EXCEPT ![b] = after]
        /\ errors' = IF returned THEN errors
                     ELSE captureError(errors,
                              "Error running 'sf project convert source' command", msg)
        /\ faults' = IF outcome = "ok" THEN faults ELSE faults + 1

\* run, line 702
CreatePlainMetadata ==
    /\ pc = "plain_sf"
    /\ \E outcome \in SfOutcomes : createSalesforcePackageMetadata(Current, "", outcome)
    /\ IF hasDependencies(Current)
       THEN pc' = "prep" /\ depIdx' = 1 /\ preMerge' = tree'[Current]
       ELSE pc' = "zip" /\ UNCHANGED <<depIdx, preMerge>>
    /\ UNCHANGED <<idx, decl, dirs, exitCode, failures, conflicts, thrown, sfdxProject,
                   zipPaths, info, releaseId, uploads, packages, manifest, written, scan,
                   unitVars>>

\* files of dependency dep that one pass of prepDependencies tries to copy
CopyCandidates(dep, b) ==
    {f \in tree[dep] : /\ ~f.nested
                       /\ f.dir \in dirs[dep] \ IGNORED_DIRECTORY_CONTENT
                       /\ ~fileExists(tree[b], f.dir, f.name)}

\* prepDependencies (lines 181-219), one dependency of the outer loop
PrepDependency ==
    /\ pc = "prep"
    /\ LET b   == Current
           dep == decl[b].deps[depIdx]
       IN  IF dep \notin BundleSet
           THEN /\ Reject("ENOENT: scandir " \o dep)
                /\ UNCHANGED <<depIdx, tree, dirs, errors, exitCode, failures,
                               conflicts, faults>>
           ELSE \E failing \in SUBSET CopyCandidates(dep, b) :
                  /\ Cardinality(failing) <= MaxFaults - faults
                  /\ LET st0 == [files |-> tree[b], dirs |-> dirs[b], errs |-> errors,
                                 fails |-> <<>>, confl |-> <<>>]
                         st  == CopySubdirectories(getSubdirectories(dirs[dep]),
                                                   tree[dep], dep, b, st0, failing)
                     IN  /\ tree' = [tree EXCEPT ![b] = st.files]
                         /\ dirs' = [dirs EXCEPT ![b] = st.dirs]
                         /\ errors' = st.errs
                         /\ failures' = failures \o st.fails
                         /\ exitCode' = IF st.fails # <<>> THEN 1 ELSE exitCode
                         /\ conflicts' = conflicts \o st.confl
                  /\ faults' = faults + Cardinality(failing)
                  /\ IF depIdx < Len(decl[b].deps)
                     THEN depIdx' = depIdx + 1 /\ pc' = "prep"
                     ELSE depIdx' = depIdx /\ pc' = "withdeps"
                  /\ UNCHANGED thrown
    /\ UNCHANGED <<idx, decl, preMerge, invocations, sfdxProject, dist, zipPaths, info,
                   releaseId, uploads, packages, manifest, written, running, scan, unitVars>>

\* run, line 706
CreateWithDepsMetadata ==
    /\ pc = "withdeps_sf"
    /\ \E outcome \in SfOutcomes :
          createSalesforcePackageMetadata(Current, "-with-deps", outcome)
    /\ pc' = "zip"
    /\ UNCHANGED <<idx, depIdx, decl, dirs, preMerge, exitCode, failures, conflicts,
                   thrown, sfdxProject, zipPaths, info, releaseId, uploads, packages,
                   manifest, written, scan, unitVars>>

\* faulty variant: every archive of a folder gets the same name
ZipName_NoKind(b, kind) == "dist/" \o b \o "/" \o b \o ".zip"

\* path.join(distPath, `${featureName}-<kind>.zip`) (lines 436-452)
ZipName(b, kind) == "dist/" \o b \o "/" \o b \o "-" \o kind \o ".zip"

\* createZipFiles (lines 424-470) and run, lines 709-741. zipFolder opens its
\* output file under dist/<feature>, which exists once a folder was written
\* below it: without it the write stream fails and the run ends. A source
\* folder that was never written is globbed by the archiver, which reports
\* the missing folder as an error or as a folder without entries.
CreateZipFiles ==
    /\ pc = "zip"
    /\ LET b        == Current
           wanted   == IF hasDependencies(b) THEN Folders ELSE {"install", "uninstall"}
           missing  == {f \in wanted : ~dist[b][f].exists}
           distMade == \E f \in Folders : dist[b][f].exists
           plain    == <<ZipName(b, "install"), ZipName(b, "uninstall")>>
           deps     == <<ZipName(b, "install-with-deps"), ZipName(b, "uninstall-with-deps")>>
       IN  \/ /\ missing # {}
              /\ Reject(IF distMade THEN "ENOENT: scandir dist/" \o b
                        ELSE "ENOENT: open " \o ZipName(b, "install"))
              /\ UNCHANGED <<idx, zipPaths, info>>
           \/ /\ missing = {} \/ distMade
              /\ zipPaths' = zipPaths \o plain \o (IF hasDependencies(b) THEN deps ELSE <<>>)
              /\ info' = [info EXCEPT !.bundles =
                             PushBundle(@, IndexEntry(b, readBundleInfo(b),
                                 FilesOf(ScannedFiles(scan, tree[b], dirs[b], b), b)))]
              /\ IF idx < Len(features)
                 THEN idx' = idx + 1 /\ pc' = "read"
                 ELSE idx' = idx /\ pc' = "release"
              /\ UNCHANGED thrown
    /\ UNCHANGED <<depIdx, decl, tree, dirs, preMerge, errors, exitCode, failures,
                   conflicts, invocations, sfdxProject, dist, releaseId, uploads, faults,
                   packages, manifest, written, running, scan, unitVars>>

\* run, lines 743-760: the package entries go to the index, then the
\* release is created
CreateRelease ==
    /\ pc = "release"
    /\ info' = [info EXCEPT !.packages = @ \o packages]
    /\ \/ /\ releaseId' = 1
          /\ pc' = "upload"
          /\ UNCHANGED <<thrown, faults>>
       \/ /\ CanFail
          /\ faults' = faults + 1
          /\ Reject("HttpError: createRelease")
          /\ UNCHANGED releaseId
    /\ UNCHANGED <<idx, depIdx, decl, tree, dirs, preMerge, errors, exitCode, failures,
                   conflicts, invocations, sfdxProject, dist, zipPaths, uploads,
                   packages, manifest, written, running, scan, unitVars>>

\* faulty variant: the archives are taken from the end of the list
NextAsset_LastFirst(uploaded, paths) ==
    IF Len(uploaded) < Len(paths) THEN paths[Len(paths) - Len(uploaded)] ELSE "index.json"

\* the asset the next call of uploadReleaseAsset is made for: the for-of loop
\* over zipPaths (lines 762-764), then the index file (line 770)
NextAsset(uploaded, paths) ==
    IF Len(uploaded) < Len(paths) THEN paths[Len(uploaded) + 1] ELSE "index.json"

\* uploadReleaseAsset (lines 537-561) as called at lines 762-770: the zip
\* files in recorded order, then index.json
UploadReleaseAsset ==
    /\ pc = "upload"
    /\ LET asset == NextAsset(uploads, zipPaths)
       IN  \/ /\ uploads' = Append(uploads, asset)
              /\ pc' = IF asset = "index.json" THEN "cleanup" ELSE "upload"
              /\ UNCHANGED <<thrown, faults>>
           \/ /\ CanFail
              /\ faults' = faults + 1
              /\ Reject("HttpError: upload " \o asset)
              /\ UNCHANGED uploads
    /\ UNCHANGED <<idx, depIdx, decl, tree, dirs, preMerge, errors, exitCode, failures,
                   conflicts, invocations, sfdxProject, dist, zipPaths, info, releaseId,
                   packages, manifest, written, running, scan, unitVars>>

\* run, lines 772-778: hasPendingChanges, then discardTempFileChanges
\* (git restore .) when git status printed anything
DiscardTempFileChanges ==
    /\ pc = "cleanup"
    /\ \E step \in {"clean", "restored"} \cup
                   (IF CanFail THEN {"statusFail", "restoreFail"} ELSE {}) :
          /\ tree' = IF step = "restored"
                     THEN [b \in BundleSet |-> discardLocalChanges(tree[b], b)]
                     ELSE tree
          /\ errors' = CASE step = "statusFail" ->
                              captureError(errors, "Error checking for pending changes",
                                           "git exited with code 128")
                         [] step = "restoreFail" ->
                              captureError(errors, "Error discarding temp file changes",
                                           "git exited with code 128")
                         [] OTHER -> errors
          /\ faults' = IF step \in {"statusFail", "restoreFail"} THEN faults + 1 ELSE faults
    /\ pc' = "end"
    /\ UNCHANGED <<idx, depIdx, decl, dirs, preMerge, exitCode, failures, conflicts,
                   thrown, invocations, sfdxProject, dist, zipPaths, info, releaseId,
                   uploads, packages, manifest, written, running, scan, unitVars>>

\* faulty variant: the entry point ends without reporting the collected errors
MainEnd_Silent ==
    /\ pc = "end"
    /\ pc' = "done"
    /\ UNCHANGED <<idx, depIdx, decl, tree, dirs, preMerge, errors, exitCode, failures,
                   conflicts, thrown, invocations, sfdxProject, dist, zipPaths, info,
                   releaseId, uploads, faults, packages, manifest, written, running,
                   scan, unitVars>>

\* main entry point, lines 787-789
MainEnd ==
    /\ pc = "end"
    /\ IF Len(errors) > 0
       THEN /\ exitCode' = 1
            /\ failures' = Append(failures, JoinLines(errors))
       ELSE UNCHANGED <<exitCode, failures>>
    /\ pc' = "done"
    /\ UNCHANGED <<idx, depIdx, decl, tree, dirs, preMerge, errors, conflicts, thrown,
                   invocations, sfdxProject, dist, zipPaths, info, releaseId, uploads,
                   faults, packages, manifest, written, running, scan, unitVars>>

Next ==
    \/ LoadMarketplaceConfig
    \/ RunStart
    \/ ReadBundleInfo
    \/ WriteSfdxProject
    \/ CreatePlainMetadata
    \/ PrepDependency
    \/ CreateWithDepsMetadata
    \/ CreateZipFiles
    \/ CreateRelease
    \/ UploadReleaseAsset
    \/ DiscardTempFileChanges
    \/ MainEnd

Spec == Init /\ [][Next]_vars

\* ------------------------------------------- createUninstallPackageMetadata
\* child elements an install manifest is drawn from: types entries with
\* their leaves in either order, and the version tag
ElemPool ==
    {Elem("types", "", <<Leaf("members", "A"), Leaf("name", "ApexClass")>>),
     Elem("types", "", <<Leaf("name", "ApexClass"), Leaf("members", "A"),
                         Leaf("members", "B")>>),
     Elem("types", "", <<Leaf("members", "P"), Leaf("name", "ApexPage"),
                         Leaf("members", "Q")>>),
     Elem("version", API_VERSION, <<>>)}

\* the packaging tool writes a manifest only for a package directory that
\* holds components, so every manifest has a types entry
Manifests ==
    {Doc(FALSE, METADATA_NS, ch) :
        ch \in {c \in SeqsUpTo(ElemPool, MaxChildren) :
                   \E k \in DOMAIN c : c[k].tag = "types"}}

XmlInit ==
    /\ RunInit
    /\ decl = [b \in BundleSet |-> NoDecl]
    /\ manifest \in Manifests
    /\ written = <<>>
    /\ packagesDir = PackagesFixture
    /\ ParserIdle
    /\ EntryIdle

\* createUninstallPackageMetadata, lines 307-351, on the manifest under test
CreateUninstallPackageMetadata ==
    /\ written = <<>>
    /\ written' = <<createUninstallPackageMetadata(manifest)>>
    /\ UNCHANGED <<pc, idx, depIdx, decl, tree, dirs, preMerge, errors, exitCode,
                   failures, conflicts, thrown, invocations, sfdxProject, dist,
                   zipPaths, info, releaseId, uploads, faults, manifest,
                   packages, running, scan, unitVars>>

XmlNext == CreateUninstallPackageMetadata

XmlSpec == XmlInit /\ [][XmlNext]_vars

\* ------------------------------------------------- folder parser, on its own
Entry(k, p) == [key |-> k, path |-> p]

\* paths a caller groups under a top-level folder name
EntryPool ==
    {Entry("classes", "/r/f/classes/Foo.cls"),
     Entry("classes", "/r/f/classes/Foo.cls-meta.xml"),
     Entry("classes", "/r/f/classes/info.json"),
     Entry("2", "/r/redist/2/Foo.cls"),
     Entry("Objects", "/r/f.d/objects/Lead"),
     Entry("objects", "/r/f/objects/Account"),
     Entry("objects", "/r/f/objects/Account/fields/X.field-meta.xml"),
     Entry("objects", "/r/objects/f/objects/Lead"),
     Entry("constructor", "/r/f/constructor/A.js")}

MarkerChoices == {NotGiven, Given(<<"info.json">>), Given(<<"dist", "info.json">>)}

ParserInit ==
    /\ RunInit
    /\ decl = [b \in BundleSet |-> NoDecl]
    /\ manifest = NoManifest
    /\ written = <<>>
    /\ packagesDir = PackagesFixture
    /\ EntryIdle
    /\ \E es \in SeqsUpTo(EntryPool, MaxEntries) :
          /\ filePaths = [k \in DOMAIN es |-> es[k].path]
          /\ filePathsByObjectType = InsertAll(EmptyObject, es)
    /\ ignoredFolderContent \in MarkerChoices
    /\ parsed = [strategy \in {"default", "objects"} |-> <<>>]
    /\ builds = <<>>

runVars == <<pc, idx, depIdx, decl, tree, dirs, preMerge, errors, exitCode, failures,
             conflicts, thrown, invocations, sfdxProject, dist, zipPaths, info,
             releaseId, uploads, faults, packages, running, scan, manifest, written,
             packagesDir>>

\* new DefaultFolderParserStrategy().parseFiles(filePaths, ignoredFolderContent)
ParseDefault ==
    /\ parsed["default"] = <<>>
    /\ parsed' = [parsed EXCEPT !["default"] =
                     <<DefaultFolderParserStrategy(filePaths, ignoredFolderContent)>>]
    /\ UNCHANGED <<runVars, entryVars, filePaths, filePathsByObjectType,
                   ignoredFolderContent, builds>>

\* new ObjectsFolderParserStrategy().parseFiles(filePaths)
ParseObjects ==
    /\ parsed["objects"] = <<>>
    /\ parsed' = [parsed EXCEPT !["objects"] = <<ObjectsFolderParserStrategy(filePaths)>>]
    /\ UNCHANGED <<runVars, entryVars, filePaths, filePathsByObjectType,
                   ignoredFolderContent, builds>>

\* faulty variant: build() takes the groups out of the mapping as it goes
Build_Draining ==
    /\ Len(builds) < MaxBuilds
    /\ builds' = Append(builds, build(filePathsByObjectType, ignoredFolderContent))
    /\ filePathsByObjectType' = EmptyObject
    /\ UNCHANGED <<runVars, entryVars, filePaths, ignoredFolderContent, parsed>>

\* new FolderStructureBuilder(filePathsByObjectType, ignoredFolderContent)
\* .build(): the strategies only read their arguments (filter, match)
Build ==
    /\ Len(builds) < MaxBuilds
    /\ builds' = Append(builds, build(filePathsByObjectType, ignoredFolderContent))
    /\ UNCHANGED <<runVars, entryVars, filePaths, filePathsByObjectType,
                   ignoredFolderContent, parsed>>

ParserNext ==
    \/ ParseDefault
    \/ ParseObjects
    \/ Build

ParserSpec == ParserInit /\ [][ParserNext]_vars

\* ------------------------------------------------- index entries, on their own
\* declarations a bundle.json can hold: every optional property omitted or
\* stated, lists empty or not, the declared version equal to the release
\* version or not; JSON.parse checks no property against the FeatureBundle
\* type, so availability can be any string
FeatureInfos ==
    {FeatureInfo("Feature", v, Absent, deps, pkgDeps, avail, tags_, doc) :
        v \in {"1.0.0", RELEASE_VERSION},
        deps \in {Absent, Some(<<>>), Some(<<"alpha">>)},
        pkgDeps \in {Absent, Some(<<"04t000000000001">>)},
        avail \in {Absent, Some("public"), Some("dependency"), Some("internal")},
        tags_ \in {Absent, Some(<<>>), Some(<<"crm">>)},
        doc \in {Absent, Some("# Feature")}}

EntryInit ==
    /\ RunInit
    /\ decl = [b \in BundleSet |-> NoDecl]
    /\ manifest = NoManifest
    /\ written = <<>>
    /\ packagesDir = PackagesFixture
    /\ ParserIdle
    /\ featureFolder \in BundleSet
    /\ featureInfo \in FeatureInfos
    /\ entry = <<>>

\* run, lines 726-740, for the declaration under test
PushBundleEntry ==
    /\ entry = <<>>
    /\ entry' = <<BundleEntry(featureFolder, featureInfo)>>
    /\ UNCHANGED <<runVars, parserVars, featureFolder, featureInfo>>

EntryNext == PushBundleEntry

EntrySpec == EntryInit /\ [][EntryNext]_vars

\* ---------------------------------------------- package registry, on its own
\* directories below the packages root ("") that files are placed in
DirPool == {"", "a", "a/b", "c"}

ParentOf(dir) == CASE dir = "a/b" -> "a" [] OTHER -> ""
NameOf(dir) == CASE dir = "a/b" -> "b" [] OTHER -> dir

EmptyTree == [d \in DirPool |-> <<>>]

\* mkdir -p dir
RECURSIVE EnsureDir(_, _)
EnsureDir(dirTree, dir) ==
    IF dir = "" THEN dirTree
    ELSE LET up == EnsureDir(dirTree, ParentOf(dir))
         IN  IF \E k \in DOMAIN up[ParentOf(dir)] : up[ParentOf(dir)][k].name = NameOf(dir)
             THEN up
             ELSE [up EXCEPT ![ParentOf(dir)] = Append(@, DirEntry(NameOf(dir)))]

\* the next entry of directory dir, in listing order
Place(dirTree, dir, e) == [EnsureDir(dirTree, dir) EXCEPT ![dir] = Append(@, e)]

RECURSIVE PlaceAll(_, _)
PlaceAll(dirTree, placements) ==
    IF placements = <<>> THEN dirTree
    ELSE PlaceAll(Place(dirTree, Head(placements).dir, Head(placements).entry),
                  Tail(placements))

\* what can lie in a directory: a descriptor holding one object, a descriptor
\* holding an array (one element with a documentation of its own), a README
\* in another spelling, a README that cannot be read, a directory named like
\* a README
EntriesFor(dir) ==
    {FileEntry(PACKAGE_FILE_NAME, TRUE, "",
               [array |-> FALSE,
                value |-> [name |-> "solo:" \o dir, documentation |-> Absent]]),
     FileEntry(PACKAGE_FILE_NAME, TRUE, "",
               [array |-> TRUE,
                value |-> <<[name |-> "one:" \o dir, documentation |-> Absent],
                            [name |-> "two:" \o dir, documentation |-> Some("own")]>>]),
     FileEntry("Readme.MD", TRUE, "Docs of " \o dir, NoJson),
     FileEntry("README.md", FALSE, "", NoJson),
     DirEntry("readme.md")}

PlacementPool == UNION {{[dir |-> d, entry |-> e] : e \in EntriesFor(d)} : d \in DirPool}

\* a directory holds one entry of a name
Placeable(ps) ==
    \A i, j \in DOMAIN ps :
        (i # j /\ ps[i].dir = ps[j].dir) => ps[i].entry.name # ps[j].entry.name

PackageTrees ==
    {PlaceAll(EmptyTree, ps) :
        ps \in {q \in SeqsUpTo(PlacementPool, MaxPlacements) : Placeable(q)}}

PackageInit ==
    /\ RunInit
    /\ decl = [b \in BundleSet |-> NoDecl]
    /\ manifest = NoManifest
    /\ written = <<>>
    /\ packagesDir \in PackageTrees
    /\ ParserIdle
    /\ EntryIdle

\* the entry point up to the walk of the packages directory (line 665)
PackageNext ==
    \/ LoadMarketplaceConfig
    \/ RunStart

PackageSpec == PackageInit /\ [][PackageNext]_vars

\* ================================================================== claims
types(doc) == SelectSeq(doc.children, LAMBDA e : e.tag = "types")

\* a types entry as the deployment tool reads it: its names and its members
TypeEntry(e) == [name |-> TextsOf(e.kids, "name"), members |-> TextsOf(e.kids, "members")]

TypeEntries(doc) == [k \in DOMAIN types(doc) |-> TypeEntry(types(doc)[k])]

\* files of dependency d that prepDependencies is to merge: the files
\* directly inside its subdirectories that are not ignored
Mergeable(d) ==
    {f \in tree[d] : ~f.nested /\ f.dir \in dirs[d] \ IGNORED_DIRECTORY_CONTENT}

CopyErrorIn(errs, d, b, f) ==
    \E k \in DOMAIN errs :
        errs[k] = "Error copying " \o PathOf(d, f.dir, f.name) \o " to "
                  \o PathOf(b, f.dir, f.name) \o ": cp failed"

CopyErrorRecorded(d, b, f) == CopyErrorIn(errors, d, b, f)

\* C1: a folder whose bundle.json is missing or unreadable never ends run():
\* no rejection caused by reading a declaration file leaves run().
C1_MissingDeclarationNeverAborts ==
    \A b \in BundleSet : thrown # "ENOENT: " \o b \o "/bundle.json"

RECURSIVE NewlineJoined(_, _)
NewlineJoined(acc, msgs) ==
    IF msgs = <<>> THEN acc
    ELSE NewlineJoined(acc \o "\n" \o Head(msgs), Tail(msgs))

C3_MissingDependencyNeverAborts ==
    \A d \in DepNames \ BundleSet : thrown # "ENOENT: scandir " \o d

\* C4: once the with-dependencies metadata generation of a bundle has
\* finished, its working directory holds exactly the files it held before
\* prepDependencies ran.
C4_WorkingDirectoryRestored ==
    (pc = "zip" /\ hasDependencies(Current)) => tree[Current] = preMerge

\* C5 (as stated): for a bundle with dependencies the plain invocation reads
\* a directory without any copied-in file, and the -with-deps invocation
\* reads a directory that holds a same-named file for every mergeable file of
\* every declared dependency.
C5_WithDepsInputHoldsDependencies ==
    \A k \in DOMAIN invocations :
        LET inv == invocations[k]
            b   == inv.bundle
        IN  hasDependencies(b) =>
              IF inv.suffix = ""
              THEN \A f \in inv.input : f.tracked /\ f.origin = b
              ELSE \A j \in DOMAIN decl[b].deps :
                     \A f \in HeadFiles(decl[b].deps[j]) :
                        (~f.nested /\ f.dir \notin IGNORED_DIRECTORY_CONTENT) =>
                            fileExists(inv.input, f.dir, f.name)

\* C5 (amended): as above, except that a dependency file whose cp command
\* failed is absent from the -with-deps input and has an "Error copying"
\* message in the error list.
C5_WithDepsInputHoldsCopiedDependencies ==
    \A k \in DOMAIN invocations :
        LET inv == invocations[k]
            b   == inv.bundle
        IN  hasDependencies(b) =>
              IF inv.suffix = ""
              THEN \A f \in inv.input : f.tracked /\ f.origin = b
              ELSE \A j \in DOMAIN decl[b].deps :
                     \A f \in HeadFiles(decl[b].deps[j]) :
                        (~f.nested /\ f.dir \notin IGNORED_DIRECTORY_CONTENT) =>
                            \/ fileExists(inv.input, f.dir, f.name)
                            \/ CopyErrorRecorded(decl[b].deps[j], b, f)

C5_Witness ==
    \E k \in DOMAIN invocations :
        /\ invocations[k].suffix = "-with-deps"
        /\ Len(decl[invocations[k].bundle].deps) = 2
        /\ \E f \in invocations[k].input : f.origin = decl[invocations[k].bundle].deps[2]
        /\ \E j \in DOMAIN invocations :
               /\ j < k
               /\ invocations[j].bundle = invocations[k].bundle
               /\ invocations[j].suffix = ""

\* a file of the current bundle that cp created from a declared dependency
CopiedIn(b, d, n) ==
    \E g \in tree[b] :
        /\ g.dir = d /\ g.name = n /\ ~g.tracked
        /\ \E j \in DOMAIN decl[b].deps :
              decl[b].deps[j] \in BundleSet /\
              \E f \in tree[decl[b].deps[j]] : f.dir = d /\ f.name = n /\ f.origin = g.origin

\* C6 (as stated): when prepDependencies has returned, every subdirectory of
\* every dependency that is not ignored exists under the dependent, and every
\* file directly inside it that had no same-named file in the dependent is
\* there as a copy.
C6_DependencyFilesMerged ==
    pc = "withdeps" =>
        \A j \in DOMAIN decl[Current].deps :
            LET d == decl[Current].deps[j]
            IN  \A s \in dirs[d] \ IGNORED_DIRECTORY_CONTENT :
                  /\ s \in dirs[Current]
                  /\ \A f \in Mergeable(d) :
                        (f.dir = s /\ ~fileExists(preMerge, s, f.name)) =>
                            CopiedIn(Current, s, f.name)

\* C6 (amended): as above, except that a file whose cp command failed is not
\* there and has an "Error copying" message in the error list.
C6_DependencyFilesMergedUnlessCopyFailed ==
    pc = "withdeps" =>
        \A j \in DOMAIN decl[Current].deps :
            LET d == decl[Current].deps[j]
            IN  \A s \in dirs[d] \ IGNORED_DIRECTORY_CONTENT :
                  /\ s \in dirs[Current]
                  /\ \A f \in Mergeable(d) :
                        (f.dir = s /\ ~fileExists(preMerge, s, f.name)) =>
                            \/ CopiedIn(Current, s, f.name)
                            \/ CopyErrorRecorded(d, Current, f)

C6_Witness ==
    /\ pc = "withdeps"
    /\ Len(decl[Current].deps) = 2
    /\ "objects" \in dirs[Current] \ HeadDirs(Current)
    /\ "dist" \notin dirs[Current]
    /\ \E f \in tree[Current] : f.origin = decl[Current].deps[1]
    /\ \E f \in tree[Current] : f.origin = decl[Current].deps[2]

\* C7: a pass of prepDependencies over a dependency never changes or removes
\* a file of the dependent; when a target file already exists the run is
\* flagged as failed with a message naming it, the pass does not throw, the
\* other files of the dependency are still copied (or their cp failure is
\* recorded) and the loop goes on to the next dependency.
C7_ConflictSkipsAndContinues ==
    [][(pc = "prep" /\ decl[Current].deps[depIdx] \in BundleSet) =>
          LET b     == Current
              dep   == decl[b].deps[depIdx]
              clash == {f \in Mergeable(dep) : fileExists(tree[b], f.dir, f.name)}
          IN  /\ tree[b] \subseteq tree'[b]
              /\ \A f, g \in tree'[b] : (f.dir = g.dir /\ f.name = g.name) => f = g
              /\ clash # {} =>
                    /\ exitCode' = 1
                    /\ \A f \in clash :
                          \E k \in DOMAIN failures' :
                              failures'[k] = "File already exists: " \o PathOf(b, f.dir, f.name)
                    /\ thrown' = ""
                    /\ \A f \in Mergeable(dep) \ clash :
                          \/ fileExists(tree'[b], f.dir, f.name)
                          \/ CopyErrorIn(errors', dep, b, f)
                    /\ IF depIdx < Len(decl[b].deps)
                       THEN pc' = "prep" /\ depIdx' = depIdx + 1
                       ELSE pc' = "withdeps"]_vars

C7_Witness ==
    /\ pc = "withdeps"
    /\ idx = 1
    /\ Len(decl[Current].deps) = 2
    /\ \E k \in DOMAIN conflicts :
           conflicts[k] = PathOf(Current, "classes", "Shared.cls")
    /\ \E f \in tree[Current] : f.origin = decl[Current].deps[1] /\ f.name = "Util.cls"
    /\ \E f \in tree[Current] : f.origin = decl[Current].deps[2]
    /\ \E f \in tree[Current] : f.name = "Shared.cls" /\ f.origin = Current /\ f.tracked

\* C8: when bundle c declares only b and b declares only a, no file that
\* originates from a is in the directory packaged for c's -with-deps
\* artifact, whatever the processing order.
C8_DepthExactlyOne ==
    \A k \in DOMAIN invocations :
        LET inv == invocations[k]
            c   == inv.bundle
        IN  (inv.suffix = "-with-deps" /\ Len(decl[c].deps) = 1) =>
              LET b == decl[c].deps[1]
              IN  (b \in BundleSet /\ decl[b].present /\ Len(decl[b].deps) = 1
                     /\ decl[b].deps[1] \in BundleSet \ {c}) =>
                    \A f \in inv.input : f.origin # decl[b].deps[1]

NonTypes(doc) == SelectSeq(doc.children, LAMBDA e : e.tag # "types")

\* C11 (as stated): uninstall/package.xml holds the install manifest's
\* types entries (type names with their members) under the metadata
\* namespace.
C11_UninstallManifestHoldsTypes ==
    written # <<>> =>
        /\ written[1].package.xmlns = METADATA_NS
        /\ TypeEntries(written[1].package) = TypeEntries(manifest)

\* C11 (amended): uninstall/package.xml holds no types entry; it holds the
\* other child elements of the install manifest (the version tag) in their
\* order, under the metadata namespace, without the standalone attribute.
C11_UninstallManifestHoldsNoTypes ==
    written # <<>> =>
        /\ written[1].package.xmlns = METADATA_NS
        /\ ~written[1].package.standalone
        /\ types(written[1].package) = <<>>
        /\ written[1].package.children = NonTypes(manifest)

C11_Witness ==
    /\ written # <<>>
    /\ Len(types(manifest)) >= 1
    /\ manifest.children[1].tag = "types"
    /\ Len(written[1].package.children) = 1
    /\ written[1].package.children[1] = Elem("version", API_VERSION, <<>>)

\* the positions of path p at which the text t starts
Occurrences(p, t) == {i \in 1..Len(p) : i + Len(t) - 1 <= Len(p) /\ SubSeq(p, i, i + Len(t) - 1) = t}

NoSeparatorFrom(p, i) == \A j \in i..Len(p) : SubSeq(p, j, j) # "/"

\* (a) the final segment holds a '.' that is followed by at least one
\* character, (b) no marker occurs anywhere in the path, (c) the path does
\* not end with -meta.xml
KeptByDefault(p, markers) ==
    /\ \E i \in Occurrences(p, ".") : i < Len(p) /\ NoSeparatorFrom(p, i)
    /\ \A k \in DOMAIN markers : Occurrences(p, markers[k]) = {}
    /\ Len(p) - 8 \notin Occurrences(p, "-meta.xml")

\* C12: the Default strategy returns, in input order, exactly the paths that
\* have an extension in their final segment, hold no ignored marker anywhere
\* in the path and are no -meta.xml companion; without a marker list nothing
\* is excluded for a marker.
C12_DefaultStrategyFilter ==
    parsed["default"] # <<>> =>
        parsed["default"][1] =
            SelectSeq(filePaths, LAMBDA p :
                KeptByDefault(p, IF ignoredFolderContent.given
                                 THEN ignoredFolderContent.list ELSE <<>>))

C12_Witness ==
    /\ parsed["default"] = << <<"/r/f/classes/Foo.cls">> >>
    /\ filePaths = <<"/r/f/classes/Foo.cls", "/r/f/classes/Foo.cls-meta.xml",
                     "/r/f/classes/info.json">>
    /\ ignoredFolderContent = Given(<<"info.json">>)

\* p is <prefix>/objects/<name> with <name> one non-empty segment
IsObjectDirectory(p) ==
    \E i \in Occurrences(p, "/objects/") : i + 9 <= Len(p) /\ NoSeparatorFrom(p, i + 9)

\* p lies deeper than one segment below an objects segment
BelowObjectDirectory(p) ==
    \E i \in Occurrences(p, "/objects/") :
        \E j \in (i + 10)..Len(p) : SubSeq(p, j, j) = "/"

\* C13 (as stated): the objects strategy returns exactly the input paths of
\* the form <prefix>/objects/<name>, all of them, and none that lies deeper
\* below an objects segment.
C13_ObjectsStrategyKeepsObjectDirectories ==
    parsed["objects"] # <<>> =>
        /\ Range(parsed["objects"][1]) = {p \in Range(filePaths) : IsObjectDirectory(p)}
        /\ \A p \in Range(parsed["objects"][1]) : ~BelowObjectDirectory(p)

\* C13 (amended): the same, for input lists in which no path holds
\* "/objects/" more than once.
C13_ObjectsStrategyKeepsObjectDirectoriesUnnested ==
    (/\ parsed["objects"] # <<>>
     /\ \A p \in Range(filePaths) : Cardinality(Occurrences(p, "/objects/")) <= 1) =>
        /\ Range(parsed["objects"][1]) = {p \in Range(filePaths) : IsObjectDirectory(p)}
        /\ \A p \in Range(parsed["objects"][1]) : ~BelowObjectDirectory(p)

C13_Witness ==
    /\ parsed["objects"] = << <<"/r/f/objects/Account", "/r/f.d/objects/Lead">> >>
    /\ filePaths = <<"/r/f/objects/Account/fields/X.field-meta.xml",
                     "/r/f/objects/Account", "/r/f.d/objects/Lead">>

\* C14: no path occurs twice in the result of the objects strategy, also
\* when the input list holds a path more than once.
C14_ObjectsStrategyDeduplicates ==
    parsed["objects"] # <<>> => NoRepeat(parsed["objects"][1])

\* what the registry and its fallback are to give for a key
DispatchedResult(key, paths, ignored) ==
    IF key = "objects"
    THEN SelectSeq(paths, LAMBDA p : p \in Range(ObjectsFolderParserStrategy(paths)))
    ELSE SelectSeq(paths, LAMBDA p :
             KeptByDefault(p, IF ignored.given THEN ignored.list ELSE <<>>))

\* C15: build() parses the group whose key is exactly "objects" with the
\* objects strategy and the group of every other key with the Default
\* strategy; no key makes it fail.
C15_ExactLookupWithDefaultFallback ==
    \A n \in DOMAIN builds :
        /\ ~builds[n].threw
        /\ LET keys == ObjectKeys(filePathsByObjectType)
           IN  builds[n].paths =
                   Flat([k \in DOMAIN keys |->
                            DispatchedResult(keys[k], filePathsByObjectType.val[keys[k]],
                                             ignoredFolderContent)])

\* C16: what build() returns is the per-group results one after the other,
\* the groups in the order their keys were inserted and the paths of a group
\* in their input order.
C16_GroupsInInsertionOrder ==
    \A n \in DOMAIN builds :
        ~builds[n].threw =>
            LET keys == filePathsByObjectType.own
            IN  builds[n].paths =
                    Flat([k \in DOMAIN keys |->
                             DispatchedResult(keys[k], filePathsByObjectType.val[keys[k]],
                                              ignoredFolderContent)])

C18_EntryFromDeclaration ==
    entry # <<>> =>
        /\ entry[1].id = featureFolder
        /\ entry[1].version = RELEASE_VERSION
        /\ entry[1].dependencies =
              (IF featureInfo.dependencies = <<>> THEN <<>> ELSE featureInfo.dependencies[1])
        /\ entry[1].packageDependencies =
              (IF featureInfo.packageDependencies = <<>> THEN <<>>
               ELSE featureInfo.packageDependencies[1])
        /\ entry[1].availability =
              (IF featureInfo.availability = <<>> THEN "public"
               ELSE featureInfo.availability[1])
        /\ entry[1].tags = (IF featureInfo.tags = <<>> THEN <<>> ELSE featureInfo.tags[1])

C18_Witness ==
    /\ entry # <<>>
    /\ featureInfo.availability = <<>>
    /\ featureInfo.tags = <<>>
    /\ featureInfo.version = "1.0.0"
    /\ featureInfo.dependencies = << <<"alpha">> >>
    /\ entry[1].availability = "public"
    /\ entry[1].tags = <<>>
    /\ entry[1].version = "v2.0.0"

\* C19: the bundle entries of the index are the folders of the bundles
\* directory in listing order, one each once the loop has ended, and the
\* packages list is what the directory walk returned, in the order of the
\* walk (core's two entries before the entry two levels below extra).
C19_IndexInDiscoveryOrder ==
    /\ [k \in DOMAIN info.bundles |-> info.bundles[k].id]
           = SubSeq(features, 1, Len(info.bundles))
    /\ pc \in {"release", "upload", "cleanup", "end", "done"} =>
           Len(info.bundles) = Len(features)
    /\ pc \in {"upload", "cleanup", "end", "done"} =>
           /\ info.packages = packages
           /\ [k \in DOMAIN info.packages |-> info.packages[k].name]
                  = <<"core", "core-ui", "extra">>

C19_Witness ==
    /\ pc = "done"
    /\ Len(info.bundles) = 3
    /\ info.bundles[2].id = "beta"
    /\ info.bundles[2].dependencies = <<"gamma", "alpha">>
    /\ Len(info.packages) = 3

\* the entries a descriptor file declares
Declared(e) == IF e.json.array THEN e.json.value ELSE <<e.json.value>>

NamedReadme(e) == toLowerCase(e.name) = "readme.md"

\* the documentation for the descriptors of a directory. As stated: the text
\* of the file of the directory that is named README.md ignoring case. As
\* amended: the text of the first entry so named, when it is a file that can
\* be read.
DocumentationFor(rule, entries) ==
    LET named == SelectSeq(entries, LAMBDA e :
                     NamedReadme(e) /\ (rule = "stated" => e.kind = "file"))
    IN  IF named = <<>> THEN Absent
        ELSE IF rule = "stated" \/ (named[1].kind = "file" /\ named[1].readable)
        THEN Some(named[1].text)
        ELSE Absent

Documented(pkgs, doc) ==
    IF doc = Absent THEN pkgs
    ELSE [k \in DOMAIN pkgs |-> [pkgs[k] EXCEPT !.documentation = doc]]

\* the entries of all descriptors at and below dir, directory by directory
\* in listing order
RECURSIVE DeclaredBelow(_, _, _)
DeclaredBelow(rule, dirTree, dir) ==
    LET entries == Listing(dirTree, dir)
    IN  Flat([k \in DOMAIN entries |->
                 IF entries[k].kind = "dir"
                 THEN DeclaredBelow(rule, dirTree, JoinPath(dir, entries[k].name))
                 ELSE IF entries[k].name = "sfpackage.json"
                 THEN Documented(Declared(entries[k]), DocumentationFor(rule, entries))
                 ELSE <<>>])

\* C20 (as stated): getPackageData returns every entry of every sfpackage.json
\* at any depth, and the entries of a descriptor carry the text of the README
\* file of the descriptor's own directory whenever that directory holds one.
C20_PackagesWithSiblingReadme ==
    pc = "read" => packages = DeclaredBelow("stated", packagesDir, "")

\* the descriptors' directories whose first README-named entry cannot be read
UnreadableReadmes ==
    {d \in DirPool :
        /\ \E k \in DOMAIN packagesDir[d] : packagesDir[d][k].name = "sfpackage.json"
        /\ \E k \in DOMAIN packagesDir[d] :
              /\ NamedReadme(packagesDir[d][k])
              /\ \A j \in 1..(k - 1) : ~NamedReadme(packagesDir[d][j])
              /\ ~(packagesDir[d][k].kind = "file" /\ packagesDir[d][k].readable)}

\* C20 (amended): as above, where the README of a directory is its first
\* entry named README.md ignoring case; when that entry is a file that can be
\* read its text goes to every entry of the directory's descriptor, and when
\* it cannot be read the entries are returned as declared and one error per
\* such directory is recorded.
C20_PackagesWithReadableSiblingReadme ==
    pc = "read" =>
        /\ packages = DeclaredBelow("amended", packagesDir, "")
        /\ Len(errors) = Cardinality(UnreadableReadmes)
        /\ \A d \in UnreadableReadmes :
              \E k \in DOMAIN errors, n \in {"README.md", "readme.md"},
                 c \in {"EISDIR", "EACCES"} :
                  errors[k] = "Error reading README.md file " \o JoinPath(d, n) \o ": " \o c

C20_Witness ==
    /\ pc = "read"
    /\ Len(packages) = 3
    /\ \E k \in DOMAIN packages :
          packages[k].name = "one:a/b" /\ packages[k].documentation = <<"Docs of a/b">>
    /\ \E k \in DOMAIN packages :
          packages[k].name = "two:a/b" /\ packages[k].documentation = <<"Docs of a/b">>
    /\ \E k \in DOMAIN packages :
          packages[k].name = "solo:a" /\ packages[k].documentation = <<>>

\* a call of createSalesforcePackageMetadata whose sf command failed, or
\* whose install manifest could not be read or parsed
PackagingFailed(inv) ==
    ~inv.sfSucceeded \/ (~inv.uninstallSucceeded /\ inv.manifestRead # "")

SfErrorPrefix == "Error running 'sf project convert source' command: "

\* the run ended in the archive step of folder b
EndedInArchiveStep(b) ==
    thrown \in {"ENOENT: scandir dist/" \o b, "ENOENT: open " \o ZipName(b, "install")}

\* C21: when the sf command fails, or the install manifest cannot be read or
\* parsed, createSalesforcePackageMetadata appends one message to the error
\* list and returns false, the variant's uninstall folder holds neither a
\* package.xml nor a destructiveChanges.xml, and the run is not ended by the
\* steps that follow for that folder.
C21_PackagingFailureRecordedAndRunGoesOn ==
    \A k \in DOMAIN invocations :
        LET inv  == invocations[k]
            next == Len(inv.errorsBefore) + 1
            un   == dist[inv.bundle][UninstallFolder(inv.suffix)]
        IN  PackagingFailed(inv) =>
              /\ ~inv.returned
              /\ Len(errors) >= next
              /\ SubSeq(errors, 1, next - 1) = inv.errorsBefore
              /\ errors[next] \in {SfErrorPrefix \o "sf exited with code 1",
                                   SfErrorPrefix \o "ENOENT: package.xml"}
              /\ (k = Len(invocations) /\ pc \in {"prep", "zip"}) => Len(errors) = next
              /\ un.package = <<>> /\ un.destructive = <<>>
              /\ ~EndedInArchiveStep(inv.bundle)

\* everything run() uploads: the recorded archives, then the index document
Assets == zipPaths \o <<"index.json">>

\* C22: a failing upload of one release asset does not leave run(): the
\* failure is caught for that asset, so no run ends with an upload's
\* rejection while assets are still to be uploaded.
C22_UploadFailureCaughtPerAsset ==
    \A k \in DOMAIN Assets :
        ~(pc = "aborted" /\ thrown = "HttpError: upload " \o Assets[k])

\* C23: the release is created only when every folder has been processed, no
\* asset is uploaded before the release exists, the archives are uploaded in
\* the order they were recorded with the index document after all of them,
\* and the pending-changes check with its discard comes after the last upload.
C23_ReleaseThenUploadsThenCleanup ==
    /\ releaseId # 0 =>
          /\ Len(info.bundles) = Len(features)
          /\ pc \in {"upload", "cleanup", "end", "done", "aborted"}
    /\ uploads # <<>> => releaseId # 0
    /\ Len(uploads) <= Len(Assets) /\ uploads = SubSeq(Assets, 1, Len(uploads))
    /\ pc \in {"end", "done"} => uploads = Assets
    /\ pc \notin {"end", "done"} =>
          ~\E k \in DOMAIN errors :
              errors[k] \in {"Error checking for pending changes: git exited with code 128",
                             "Error discarding temp file changes: git exited with code 128"}

C23_Witness ==
    /\ pc = "done"
    /\ releaseId # 0
    /\ Len(uploads) = 9
    /\ uploads[9] = "index.json"
    /\ uploads[3] = "dist/alpha/alpha-install-with-deps.zip"
    /\ uploads[5] = "dist/beta/beta-install.zip"

\* C24: the availability of every bundle entry of the index is "public" or
\* "dependency", whatever the declaration file states.
C24_AvailabilityIsClassified ==
    \A k \in DOMAIN entry : entry[k].availability \in {"public", "dependency"}

\* the values of a manifest's version tags, in document order
VersionTags(doc) ==
    LET sel == SelectSeq(doc.children, LAMBDA e : e.tag = "version")
    IN  [k \in DOMAIN sel |-> sel[k].text]

\* C25: the package.xml written to the uninstall folder is the install
\* manifest without its types: no child of its root is a types entry, every
\* other child of the install manifest is a child of it (as many as the
\* install manifest holds), and its version tag has the install manifest's
\* value whenever the install manifest has a version tag.
C25_UninstallManifestIsInstallMinusTypes ==
    written # <<>> =>
        LET U == written[1].package
        IN  /\ \A k \in DOMAIN U.children : U.children[k].tag # "types"
            /\ Len(U.children) = Len(manifest.children) - Len(types(manifest))
            /\ \A k \in DOMAIN manifest.children :
                  manifest.children[k].tag # "types" =>
                      \E j \in DOMAIN U.children : U.children[j] = manifest.children[k]
            /\ VersionTags(U) = VersionTags(manifest)

C25_Witness ==
    /\ written # <<>>
    /\ Len(manifest.children) = 3
    /\ manifest.children[1].tag = "version"
    /\ manifest.children[2].tag = "types"
    /\ manifest.children[3].tag = "types"
    /\ VersionTags(written[1].package) = <<API_VERSION>>

\* sfdx-project.json names one package directory, marked default, which is
\* the directory of folder b
NamesOnly(project, b) ==
    /\ Len(project.packageDirectories) = 1
    /\ project.packageDirectories[1].default
    /\ project.packageDirectories[1].path = "bundles/" \o b

\* C26: at most one sf command is in progress, and while one is, and when
\* it ends, sfdx-project.json names exactly one package directory, marked
\* default: the directory of the folder the loop of run() is at.
C26_OneInvocationOnCurrentFolder ==
    /\ Len(running) <= 1
    /\ \A k \in DOMAIN running :
          /\ running[k].bundle = Current
          /\ NamesOnly(running[k].project, Current)
          /\ sfdxProject = running[k].project
    /\ \A k \in DOMAIN invocations :
          NamesOnly(invocations[k].project, invocations[k].bundle)

C26_Witness ==
    /\ Len(running) = 1
    /\ running[1].bundle = "beta"
    /\ running[1].suffix = "-with-deps"
    /\ Len(invocations) = 3
    /\ invocations[1].bundle = "alpha"
    /\ invocations[2].bundle = "alpha"
    /\ invocations[3].bundle = "beta"

\* C27: for both variants the install manifest is read from the folder the sf
\* command of that call was told to write ("install" without a suffix,
\* "install-with-deps" with it) and the two documents go to the matching
\* "uninstall" or "uninstall-with-deps" folder; nothing is read after a
\* failed sf command, and the documents of a variant are made from that
\* variant's manifest.
C27_UninstallReadsItsOwnVariant ==
    \A k \in DOMAIN invocations :
        LET inv == invocations[k]
            ins == IF inv.suffix = "" THEN "install" ELSE "install-with-deps"
            un  == IF inv.suffix = "" THEN "uninstall" ELSE "uninstall-with-deps"
        IN  /\ inv.outputDir = ins
            /\ inv.manifestRead = (IF inv.sfSucceeded THEN inv.outputDir ELSE "")
            /\ inv.uninstallWritten \in {"", un}
            /\ inv.uninstallSucceeded =>
                  /\ inv.uninstallWritten = un
                  /\ dist[inv.bundle][ins].package = <<SfManifest(inv.input)>>
                  /\ dist[inv.bundle][un].package =
                        <<UpdatedPackageXml(SfManifest(inv.input))>>
                  /\ dist[inv.bundle][un].destructive =
                        <<DestructiveChangesXml(SfManifest(inv.input))>>
            /\ (inv.sfSucceeded /\ dist[inv.bundle][ins].package # <<>>) =>
                  inv.uninstallSucceeded

C27_Witness ==
    \E j, k \in DOMAIN invocations :
        /\ invocations[j].bundle = invocations[k].bundle
        /\ invocations[j].suffix = "" /\ invocations[k].suffix = "-with-deps"
        /\ invocations[j].uninstallWritten = "uninstall"
        /\ invocations[k].uninstallWritten = "uninstall-with-deps"
        /\ dist[invocations[k].bundle]["uninstall"].destructive
              # dist[invocations[k].bundle]["uninstall-with-deps"].destructive
        /\ dist[invocations[k].bundle]["uninstall-with-deps"].destructive # <<>>

\* C28: a call of createSalesforcePackageMetadata invokes the restore of the
\* working directory exactly when its sf command and its uninstall
\* generation both succeeded; otherwise it returns false and leaves the
\* directory as it found it, and what the directory held stays there as long
\* as the end-of-run discard has not run.
C28_RestoreIffBothSucceeded ==
    \A k \in DOMAIN invocations :
        LET inv == invocations[k]
        IN  /\ inv.restoreInvoked <=> (inv.sfSucceeded /\ inv.uninstallSucceeded)
            /\ ~inv.restoreInvoked =>
                  /\ ~inv.returned
                  /\ inv.treeAfter = inv.input
                  /\ pc \notin {"end", "done"} => inv.input \subseteq tree[inv.bundle]

C28_Witness ==
    /\ pc = "cleanup"
    /\ \E k \in DOMAIN invocations :
          /\ invocations[k].suffix = "-with-deps"
          /\ ~invocations[k].restoreInvoked
          /\ invocations[k].sfSucceeded
          /\ \E f \in invocations[k].input : ~f.tracked /\ f \in tree[invocations[k].bundle]
    /\ \E k \in DOMAIN invocations : invocations[k].restoreInvoked

\* the archives of one folder, in the order run() records them
ArchivesOf(b) ==
    <<"dist/" \o b \o "/" \o b \o "-install.zip",
      "dist/" \o b \o "/" \o b \o "-uninstall.zip">>
    \o (IF decl[b].present /\ decl[b].deps # <<>>
        THEN <<"dist/" \o b \o "/" \o b \o "-install-with-deps.zip",
               "dist/" \o b \o "/" \o b \o "-uninstall-with-deps.zip">>
        ELSE <<>>)

\* the folders whose iteration has completed
Completed == SubSeq(features, 1, Len(info.bundles))

\* C29: the recorded archive paths are, for each folder whose iteration has
\* completed and in the order of the folders, install and uninstall, followed
\* by install-with-deps and uninstall-with-deps exactly when the declared
\* dependency list is not empty; whether a createSalesforcePackageMetadata
\* call of the folder returned false makes no difference.
C29_ArchivesRecordedInFixedOrder ==
    zipPaths = Flat([k \in DOMAIN Completed |-> ArchivesOf(Completed[k])])

C29_Witness ==
    /\ Len(Completed) >= 2
    /\ Len(ArchivesOf(Completed[1])) = 4
    /\ Len(ArchivesOf(Completed[2])) = 2
    /\ \E k \in DOMAIN invocations :
          invocations[k].bundle = Completed[1] /\ ~invocations[k].returned

\* the paths, relative to the bundle root, of what folder b holds of its own:
\* its committed files and the directories they are in
OwnPaths(b) ==
    {f.dir \o "/" \o f.name : f \in HeadFiles(b)}
    \cup {f.dir \o "/" \o FirstSegment(f.name) : f \in HeadFiles(b)}
    \cup {f.dir : f \in HeadFiles(b)}

\* C30: the files list of a bundle's index entry holds only paths, relative
\* to the bundle root, of what the bundle's own directory held when its
\* iteration began; no file that prepDependencies copied into the directory
\* is in the list.
C30_FilesListFromInitialScan ==
    \A k \in DOMAIN info.bundles :
        LET e == info.bundles[k]
        IN  /\ Range(e.files) \subseteq OwnPaths(e.id)
            /\ \A f \in tree[e.id] :
                  ~f.tracked => (f.dir \o "/" \o f.name) \notin Range(e.files)

C30_Witness ==
    \E k \in DOMAIN info.bundles :
        LET e == info.bundles[k]
        IN  /\ e.id = "alpha"
            /\ e.files = <<"classes/A.cls", "classes/Shared.cls", "objects/Account">>
            /\ \E f \in tree["alpha"] : ~f.tracked /\ f.dir = "classes" /\ f.name = "B.cls"
====
